---- MODULE Spec2Model ----
(***************************************************************************)
(* The request handlers of src/api/cube_api.rs over the Cube collection.   *)
(* The handlers are translated from cube_api.rs; the repository adapter    *)
(* they call (MongoRepo, the db_* operators) follows the specification of  *)
(* the Record Store Adapter.                                               *)
(***************************************************************************)
EXTENDS Integers, Sequences, FiniteSets, TLC

\* How many records the create handler may insert in one behaviour: of the
\* requests served one at a time, and of the concurrent requests.
MaxInserts == 2

MaxConcInserts == 1

\* The update requests in flight at the same time: a request between its replace
\* and its re-fetch holds one slot, and a new one takes the first free slot.
Threads == {"t1", "t2"}

\* The thread of a step that runs a whole handler and holds no slot.
NoThread == "none"

----------------------------------------------------------------------------
\* Option<T>
None == [some |-> FALSE, v |-> 0]

Some(x) == [some |-> TRUE, v |-> x]

\* ObjectIds are numbered 1, 2, ...; OidHex[n] is the 24-digit hex string of n.
OidHex ==
  << "000000000000000000000001", "000000000000000000000002",
     "000000000000000000000003", "000000000000000000000004",
     "00000000000000000000000a" >>

\* An identifier the store never generates itself (a client-supplied one).
ForeignOid == Len(OidHex)

\* ObjectId::parse_str: Ok(oid) for the hex string of an oid, Err otherwise.
parse_str(s) ==
  IF \E n \in DOMAIN OidHex : OidHex[n] = s
  THEN [ok |-> TRUE, oid |-> CHOOSE n \in DOMAIN OidHex : OidHex[n] = s]
  ELSE [ok |-> FALSE, oid |-> 0]

\* String::is_empty
is_empty_never(s) == FALSE

is_empty(s) == s = ""

\* The Cube model: { id?, name, type_, pieces, faces, stickers, year_created, wr }
Cube(id, name, type_, pieces, faces, stickers, year_created, wr) ==
  [id |-> id, name |-> name, type_ |-> type_, pieces |-> pieces, faces |-> faces,
   stickers |-> stickers, year_created |-> year_created, wr |-> wr]

\* Request bodies: two cubes without an identifier, and a third, with the name
\* of the first, that carries a client-supplied identifier.
Bodies ==
  { Cube(None, "Pyraminx", "tetrahedron", 4, 4, 0, 1970, "0.91s"),
    Cube(None, "Megaminx", "dodecahedron", 50, 12, 132, 1982, "23.18s"),
    Cube(Some(ForeignOid), "Pyraminx", "tetrahedron", 14, 4, 36, 1981, "0.73s") }

\* Query parameters.
IdParams == {"", "not-an-oid"} \cup { OidHex[n] : n \in 1..MaxInserts }

NameParams == {"", "Pyraminx"}

TypeParams == {"", "tetrahedron"}

\* What the store does with one call: it answers, or the driver reports an error.
Envs == {"ok", "error"}

----------------------------------------------------------------------------
\* The collection: a sequence of cubes in store order, every one with an id.
IndexById(s, oid) ==
  IF \E i \in DOMAIN s : s[i].id = Some(oid)
  THEN CHOOSE i \in DOMAIN s : s[i].id = Some(oid) /\ \A j \in 1..(i-1) : s[j].id # Some(oid)
  ELSE 0

IndexByName(s, name) ==
  IF \E i \in DOMAIN s : s[i].name = name
  THEN CHOOSE i \in DOMAIN s : s[i].name = name /\ \A j \in 1..(i-1) : s[j].name # name
  ELSE 0

\* The record stored under an identifier: <<record>>, or <<>> when there is none.
Lookup(s, oid) == IF IndexById(s, oid) = 0 THEN <<>> ELSE << s[IndexById(s, oid)] >>

RemoveAt(s, i) == [j \in 1..(Len(s) - 1) |-> IF j < i THEN s[j] ELSE s[j + 1]]

\* What an adapter call returns: kind is "ok", "notfound" (a lookup that matched
\* nothing), "error" (the driver failed) or "panic" (the call did not return);
\* cubes are the records read, ack the inserted id, n the matched/deleted count.
Result(kind, cubes, ack, n, s) ==
  [kind |-> kind, cubes |-> cubes, ack |-> ack, n |-> n, store |-> s]

Failure(kind, s) == Result(kind, <<>>, None, 0, s)

\* An identifier that does not parse violates the adapter's precondition: the
\* call fails one way or the other, and never reaches the collection.
BadId(env, s) == Failure(IF env = "error" THEN "error" ELSE "panic", s)

\* insert: the store generates the identifier of a cube that carries none.
db_insert_cube(s, gen, cube, env) ==
  LET oid == IF cube.id.some THEN cube.id.v ELSE gen
  IN IF env = "error" \/ IndexById(s, oid) # 0
     THEN Failure("error", s)
     ELSE Result("ok", <<>>, Some(oid), 0, Append(s, [cube EXCEPT !.id = Some(oid)]))

\* findById
db_get_cube(s, id, env) ==
  LET p == parse_str(id)
  IN IF ~p.ok THEN BadId(env, s)
     ELSE IF env = "error" THEN Failure("error", s)
     ELSE IF IndexById(s, p.oid) = 0 THEN Failure("notfound", s)
     ELSE Result("ok", Lookup(s, p.oid), None, 0, s)

\* findByName: the first match in store order.
db_get_cube_by_name(s, name, env) ==
  IF env = "error" THEN Failure("error", s)
  ELSE IF IndexByName(s, name) = 0 THEN Failure("notfound", s)
  ELSE Result("ok", << s[IndexByName(s, name)] >>, None, 0, s)

\* findByCategory: every match, possibly none.
db_get_cube_by_type(s, type_, env) ==
  IF env = "error" THEN Failure("error", s)
  ELSE Result("ok", SelectSeq(s, LAMBDA c : c.type_ = type_), None, 0, s)

\* findAll
db_get_all_cubes(s, env) ==
  IF env = "error" THEN Failure("error", s) ELSE Result("ok", s, None, 0, s)

\* Full replace of the record at index i: every field is overwritten from the
\* payload; the identifier changes only when the payload carries one, and the
\* store refuses an identifier another record holds.
ReplaceAt(s, i, data) ==
  LET newid == IF data.id.some THEN data.id ELSE s[i].id
  IN IF \E j \in DOMAIN s : j # i /\ s[j].id = newid
     THEN Failure("error", s)
     ELSE Result("ok", <<>>, None, 1, [s EXCEPT ![i] = [data EXCEPT !.id = newid]])

\* replaceById: matched count 0 or 1, nothing is created when nothing matches.
db_edit_cube(s, id, data, env) ==
  LET p == parse_str(id)
  IN IF ~p.ok THEN BadId(env, s)
     ELSE IF env = "error" THEN Failure("error", s)
     ELSE IF IndexById(s, p.oid) = 0 THEN Result("ok", <<>>, None, 0, s)
     ELSE ReplaceAt(s, IndexById(s, p.oid), data)

\* replaceByName
db_edit_cube_by_name(s, name, data, env) ==
  IF env = "error" THEN Failure("error", s)
  ELSE IF IndexByName(s, name) = 0 THEN Result("ok", <<>>, None, 0, s)
  ELSE ReplaceAt(s, IndexByName(s, name), data)

\* deleteById: deleted count 0 or 1.
db_delete_cube(s, id, env) ==
  LET p == parse_str(id)
  IN IF ~p.ok THEN BadId(env, s)
     ELSE IF env = "error" THEN Failure("error", s)
     ELSE IF IndexById(s, p.oid) = 0 THEN Result("ok", <<>>, None, 0, s)
     ELSE Result("ok", <<>>, None, 1, RemoveAt(s, IndexById(s, p.oid)))

----------------------------------------------------------------------------
\* rocket::http::Status, and the 200 of an Ok(Json(..)) responder.
Ok == 200

BadRequest == 400

NotFound == 404

InternalServerError == 500

\* What a handler does with a request: the response (status 0: none yet, the
\* handler goes on to its second store call), the collection afterwards, how
\* many adapter calls it made, what the first one returned (res, n) and what
\* the re-fetch of an update returned (res2).
Respond(status, r, body, ack, msg) ==
  [status |-> status, body |-> body, ack |-> ack, msg |-> msg, store |-> r.store,
   calls |-> 1, res |-> r.kind, n |-> r.n, res2 |-> "none"]

\* The early return of a handler, and a handler that panics before any store call.
Reject(status, res, s) ==
  [status |-> status, body |-> <<>>, ack |-> None, msg |-> "", store |-> s,
   calls |-> 0, res |-> res, n |-> 0, res2 |-> "none"]

\* insert_cube: the cube handed to the adapter.
insert_cube_data_swapped(new_cube) ==
  Cube(None, new_cube.name, new_cube.type_, new_cube.faces, new_cube.pieces,
       new_cube.stickers, new_cube.year_created, new_cube.wr)

insert_cube_data(new_cube) ==
  Cube(None, new_cube.name, new_cube.type_, new_cube.pieces, new_cube.faces,
       new_cube.stickers, new_cube.year_created, new_cube.wr)

insert_cube_response(s, gen, new_cube, env) ==
  LET r == db_insert_cube(s, gen, insert_cube_data(new_cube), env)
  IN IF r.kind = "ok"
     THEN Respond(Ok, r, <<>>, r.ack, "")
     ELSE Respond(InternalServerError, r, <<>>, None, "")

get_cube_response(s, id, env) ==
  IF is_empty(id) THEN Reject(BadRequest, "none", s)
  ELSE LET r == db_get_cube(s, id, env)
       IN IF r.kind = "ok"
          THEN Respond(Ok, r, r.cubes, None, "")
          ELSE Respond(InternalServerError, r, <<>>, None, "")

get_cube_by_name_response(s, name, env) ==
  IF is_empty(name) THEN Reject(BadRequest, "none", s)
  ELSE LET r == db_get_cube_by_name(s, name, env)
       IN IF r.kind = "ok"
          THEN Respond(Ok, r, r.cubes, None, "")
          ELSE Respond(InternalServerError, r, <<>>, None, "")

get_cube_by_type_response(s, type_, env) ==
  IF is_empty(type_) THEN Reject(BadRequest, "none", s)
  ELSE LET r == db_get_cube_by_type(s, type_, env)
       IN IF r.kind = "ok"
          THEN Respond(Ok, r, r.cubes, None, "")
          ELSE Respond(InternalServerError, r, <<>>, None, "")

get_all_cubes_response(s, env) ==
  LET r == db_get_all_cubes(s, env)
  IN IF r.kind = "ok"
     THEN Respond(Ok, r, r.cubes, None, "")
     ELSE Respond(InternalServerError, r, <<>>, None, "")

\* update_cube: the cube handed to the adapter carries the parsed query id.
update_cube_data_body_id(id, new_cube) ==
  Cube(new_cube.id, new_cube.name, new_cube.type_, new_cube.pieces, new_cube.faces,
       new_cube.stickers, new_cube.year_created, new_cube.wr)

update_cube_data_swapped(id, new_cube) ==
  Cube(Some(parse_str(id).oid), new_cube.name, new_cube.type_, new_cube.faces,
       new_cube.pieces, new_cube.stickers, new_cube.year_created, new_cube.wr)

update_cube_data(id, new_cube) ==
  Cube(Some(parse_str(id).oid), new_cube.name, new_cube.type_, new_cube.pieces,
       new_cube.faces, new_cube.stickers, new_cube.year_created, new_cube.wr)

update_cube_replace_no_count(s, id, new_cube, env) ==
  IF is_empty(id) THEN Reject(BadRequest, "none", s)
  ELSE IF ~parse_str(id).ok THEN Reject(InternalServerError, "panic", s)
  ELSE LET r == db_edit_cube(s, id, update_cube_data(id, new_cube), env)
       IN IF r.kind = "ok"
          THEN Respond(0, r, <<>>, None, "")
          ELSE Respond(InternalServerError, r, <<>>, None, "")

\* update_cube up to the match on the replace result: parse_str(..).unwrap()
\* panics on an identifier that does not parse.
update_cube_replace(s, id, new_cube, env) ==
  IF is_empty(id) THEN Reject(BadRequest, "none", s)
  ELSE IF ~parse_str(id).ok THEN Reject(InternalServerError, "panic", s)
  ELSE LET r == db_edit_cube(s, id, update_cube_data(id, new_cube), env)
       IN IF r.kind = "ok"
          THEN IF r.n = 1
               THEN Respond(0, r, <<>>, None, "")
               ELSE Respond(NotFound, r, <<>>, None, "")
          ELSE Respond(InternalServerError, r, <<>>, None, "")

\* update_cube after a matched replace: the re-fetch by the query id.
update_cube_refetch_first(s, id, env) ==
  LET r == db_get_cube(s, id, env)
  IN IF r.kind # "error" /\ Len(s) > 0
     THEN Respond(Ok, r, << s[1] >>, None, "")
     ELSE Respond(InternalServerError, r, <<>>, None, "")

update_cube_refetch_response(s, id, env) ==
  LET r == db_get_cube(s, id, env)
  IN IF r.kind = "ok"
     THEN Respond(Ok, r, r.cubes, None, "")
     ELSE Respond(InternalServerError, r, <<>>, None, "")

\* update_cube_by_name: the cube handed to the adapter keeps the body's id.
update_cube_by_name_data(new_cube) ==
  Cube(new_cube.id, new_cube.name, new_cube.type_, new_cube.pieces, new_cube.faces,
       new_cube.stickers, new_cube.year_created, new_cube.wr)

update_cube_by_name_replace(s, name, new_cube, env) ==
  IF is_empty(name) THEN Reject(BadRequest, "none", s)
  ELSE LET r == db_edit_cube_by_name(s, name, update_cube_by_name_data(new_cube), env)
       IN IF r.kind = "ok"
          THEN IF r.n = 1
               THEN Respond(0, r, <<>>, None, "")
               ELSE Respond(NotFound, r, <<>>, None, "")
          ELSE Respond(InternalServerError, r, <<>>, None, "")

\* update_cube_by_name after a matched replace: the re-fetch by the query name.
update_cube_by_name_refetch_response(s, name, env) ==
  LET r == db_get_cube_by_name(s, name, env)
  IN IF r.kind = "ok"
     THEN Respond(Ok, r, r.cubes, None, "")
     ELSE Respond(InternalServerError, r, <<>>, None, "")

\* delete_cube: the status for a delete the store answered.
delete_cube_status_not_found(deleted_count) ==
  IF deleted_count = 1 THEN Ok ELSE NotFound

delete_cube_status_always_ok(deleted_count) == Ok

delete_cube_status(deleted_count) ==
  IF deleted_count = 1 THEN Ok ELSE InternalServerError

delete_cube_response(s, id, env) ==
  IF is_empty(id) THEN Reject(BadRequest, "none", s)
  ELSE LET r == db_delete_cube(s, id, env)
       IN IF r.kind = "ok"
          THEN Respond(delete_cube_status(r.n), r, <<>>, None,
                       IF r.n = 1 THEN "Cube successfully deleted!" ELSE "")
          ELSE Respond(InternalServerError, r, <<>>, None, "")

----------------------------------------------------------------------------
\* A whole update handler: the replace, then the re-fetch when one record matched.
\* first is the outcome of the replace, second the outcome of the re-fetch.
Then(first, second) ==
  IF first.status # 0 THEN first
  ELSE [second EXCEPT !.calls = 2, !.res = first.res, !.n = first.n, !.res2 = second.res]

update_cube_response(s, id, new_cube, env, env2) ==
  LET first == update_cube_replace(s, id, new_cube, env)
  IN Then(first, update_cube_refetch_response(first.store, id, env2))

update_cube_by_name_response(s, name, new_cube, env, env2) ==
  LET first == update_cube_by_name_replace(s, name, new_cube, env)
  IN Then(first, update_cube_by_name_refetch_response(first.store, name, env2))

----------------------------------------------------------------------------
VARIABLES
  store,     \* the Cube collection
  nextOid,   \* the next identifier the store generates
  pend,      \* per thread: the update_cube request between its replace and its re-fetch
  last,      \* the step just taken: thread, handler, parameter, request body, response
  created    \* history: the identifier and payload of the latest create, until a
             \* write changes that record

vars == << store, nextOid, pend, last, created >>

NoCube == Cube(None, "", "", 0, 0, 0, 0, "")

NoCreated == [oid |-> 0, cube |-> NoCube]

Idle == [op |-> "idle", key |-> "", req |-> NoCube, dirty |-> FALSE]

\* A pending update_cube is dirty once another request has changed the record
\* under its identifier.
Touch(p, s, s2) ==
  IF p.op # "idle" /\ Lookup(s, parse_str(p.key).oid) # Lookup(s2, parse_str(p.key).oid)
  THEN [p EXCEPT !.dirty = TRUE]
  ELSE p

\* The state after thread t's step `op` on parameter `key` and request body `req`,
\* with outcome `out`.
Step(t, op, key, req, out, pendt, made) ==
  /\ store' = out.store
  /\ last' = [t |-> t, op |-> op, key |-> key, req |-> req, status |-> out.status,
              body |-> out.body, ack |-> out.ack, msg |-> out.msg,
              calls |-> out.calls, res |-> out.res, n |-> out.n, res2 |-> out.res2]
  /\ pend' = [u \in Threads |-> IF u = t THEN pendt ELSE Touch(pend[u], store, out.store)]
  /\ created' = IF made.oid # 0 THEN made
                ELSE IF Lookup(out.store, created.oid) = Lookup(store, created.oid)
                THEN created
                ELSE NoCreated

\* Slot t is free and every slot before it is taken.
FreeSlot(t) ==
  /\ pend[t].op = "idle"
  /\ t = "t2" => pend["t1"].op # "idle"

Init ==
  /\ store = <<>>
  /\ nextOid = 1
  /\ pend = [t \in Threads |-> Idle]
  /\ last = [t |-> NoThread, op |-> "init", key |-> "", req |-> NoCube, status |-> 0,
             body |-> <<>>,
             ack |-> None, msg |-> "", calls |-> 0, res |-> "none", n |-> 0,
             res2 |-> "none"]
  /\ created = NoCreated

insert_cube(new_cube, env) ==
  /\ nextOid <= MaxInserts
  /\ LET out == insert_cube_response(store, nextOid, new_cube, env)
     IN /\ nextOid' = IF out.res = "ok" THEN nextOid + 1 ELSE nextOid
        /\ Step(NoThread, "insert_cube", "", new_cube, out, Idle,
                IF out.res = "ok" THEN [oid |-> out.ack.v, cube |-> new_cube]
                ELSE NoCreated)

get_cube(id, env) ==
  /\ Step(NoThread, "get_cube", id, NoCube, get_cube_response(store, id, env), Idle, NoCreated)
  /\ UNCHANGED nextOid

get_cube_by_name(name, env) ==
  /\ Step(NoThread, "get_cube_by_name", name, NoCube,
          get_cube_by_name_response(store, name, env), Idle, NoCreated)
  /\ UNCHANGED nextOid

get_cube_by_type(type_, env) ==
  /\ Step(NoThread, "get_cube_by_type", type_, NoCube,
          get_cube_by_type_response(store, type_, env), Idle, NoCreated)
  /\ UNCHANGED nextOid

get_all_cubes(env) ==
  /\ Step(NoThread, "get_all_cubes", "", NoCube, get_all_cubes_response(store, env),
          Idle, NoCreated)
  /\ UNCHANGED nextOid

update_cube(id, new_cube, env, env2) ==
  /\ Step(NoThread, "update_cube", id, new_cube,
          update_cube_response(store, id, new_cube, env, env2), Idle, NoCreated)
  /\ UNCHANGED nextOid

update_cube_by_name(name, new_cube, env, env2) ==
  /\ Step(NoThread, "update_cube_by_name", name, new_cube,
          update_cube_by_name_response(store, name, new_cube, env, env2), Idle, NoCreated)
  /\ UNCHANGED nextOid

delete_cube(id, env) ==
  /\ Step(NoThread, "delete_cube", id, NoCube, delete_cube_response(store, id, env), Idle, NoCreated)
  /\ UNCHANGED nextOid

\* What the store may do with the second call of an update: there is one only
\* after a replace that matched.
Refetches(first) == IF first.status = 0 THEN Envs ELSE {"ok"}

\* Requests served one at a time: every handler runs from its first line to its
\* response before the next request starts.
Next ==
  \E env \in Envs :
    \/ \E id \in IdParams, new_cube \in Bodies :
         \E env2 \in Refetches(update_cube_replace(store, id, new_cube, env)) :
           update_cube(id, new_cube, env, env2)
    \/ \E name \in NameParams, new_cube \in Bodies :
         \E env2 \in Refetches(update_cube_by_name_replace(store, name, new_cube, env)) :
           update_cube_by_name(name, new_cube, env, env2)
    \/ \E new_cube \in Bodies : insert_cube(new_cube, env)
    \/ \E id \in IdParams : get_cube(id, env)
    \/ \E name \in NameParams : get_cube_by_name(name, env)
    \/ \E type_ \in TypeParams : get_cube_by_type(type_, env)
    \/ get_all_cubes(env)
    \/ \E id \in IdParams : delete_cube(id, env)

Spec == Init /\ [][Next]_vars

----------------------------------------------------------------------------
\* Concurrent requests: an update_cube request takes two steps, its replace and
\* its re-fetch, and other requests' store calls fall between them.

update_cube_begin(t, id, new_cube, env) ==
  /\ FreeSlot(t)
  /\ LET out == update_cube_replace(store, id, new_cube, env)
     IN Step(t, "update_cube_begin", id, new_cube, out,
             IF out.status = 0
             THEN [op |-> "update_cube", key |-> id, req |-> new_cube, dirty |-> FALSE]
             ELSE Idle,
             NoCreated)
  /\ UNCHANGED nextOid

update_cube_refetch(t, env) ==
  /\ pend[t].op = "update_cube"
  /\ Step(t, "update_cube_refetch", pend[t].key, pend[t].req,
          update_cube_refetch_response(store, pend[t].key, env), Idle, NoCreated)
  /\ UNCHANGED nextOid

\* The other handlers that write run whole: what follows their one write is at
\* most a read, which changes nothing another request sees.
NextConc ==
  \E env \in Envs :
    \/ \E new_cube \in Bodies : nextOid <= MaxConcInserts /\ insert_cube(new_cube, env)
    \/ \E id \in IdParams, new_cube \in Bodies, t \in Threads :
         update_cube_begin(t, id, new_cube, env)
    \/ \E t \in Threads : update_cube_refetch(t, env)
    \/ \E name \in NameParams, new_cube \in Bodies :
         update_cube_by_name(name, new_cube, env, env)
    \/ \E id \in IdParams : delete_cube(id, env)

SpecConc == Init /\ [][NextConc]_vars

----------------------------------------------------------------------------
\* Vocabulary of the properties below.
Oid(k) == parse_str(k).oid

WellFormed(k) == parse_str(k).ok

SameFields(a, b) == [a EXCEPT !.id = None] = [b EXCEPT !.id = None]

Ids(s) == [i \in DOMAIN s |-> s[i].id]

IdSet(s) == { s[i].id : i \in DOMAIN s }

Records(s) == { s[i] : i \in DOMAIN s }

ParameterHandlers ==
  {"get_cube", "get_cube_by_name", "get_cube_by_type", "update_cube",
   "update_cube_by_name", "delete_cube"}

IdentifierHandlers == {"get_cube", "update_cube", "delete_cube"}

ReadHandlers == {"get_cube", "get_cube_by_name", "get_cube_by_type", "get_all_cubes"}

----------------------------------------------------------------------------
\* C1: a request to a parameterized handler whose id, name or type_ is the empty
\* string is answered 400 without any store call, and the collection is unchanged.
C1_EmptyParameterRejected ==
  [][ (last'.op \in ParameterHandlers /\ last'.key = "")
      => (last'.status = BadRequest /\ last'.calls = 0 /\ store' = store) ]_vars

\* An empty id sent to delete_cube while the collection holds a record.
C1_Witness ==
  /\ last.op = "delete_cube" /\ last.key = ""
  /\ last.status = BadRequest
  /\ Len(store) > 0

\* C2: a non-empty id that is not a well-formed identifier, sent to get_cube,
\* update_cube or delete_cube, is answered 400, before any store call.
C2_MalformedIdIsInvalidRequest ==
  (last.op \in IdentifierHandlers /\ last.key # "" /\ ~WellFormed(last.key))
  => (last.status = BadRequest /\ last.calls = 0)

\* C3: an update by a non-empty name whose replace reports no error (and whose
\* re-fetch meets no driver error) is answered 200 with the record carrying the
\* payload's fields when one record matched, and 404 only when none matched.
C3_UpdateByNameReturnsUpdated ==
  (last.op = "update_cube_by_name" /\ last.key # "" /\ last.res = "ok"
   /\ last.res2 # "error")
  => /\ last.n = 1 => /\ last.status = Ok
                      /\ Len(last.body) = 1
                      /\ SameFields(last.body[1], last.req)
     /\ last.status = NotFound => last.n = 0

\* C4: an update by a well-formed id that matches no stored record, answered by
\* the store, ends 404, and the collection is unchanged whatever the store did.
C4_UpdateUnknownIdNotFound ==
  [][ (last'.op = "update_cube" /\ WellFormed(last'.key)
       /\ IndexById(store, Oid(last'.key)) = 0)
      => /\ store' = store
         /\ last'.res # "error" => last'.status = NotFound ]_vars

\* The collection holds a record, and the id of the update is not its id.
C4_Witness ==
  /\ last.op = "update_cube" /\ WellFormed(last.key)
  /\ last.status = NotFound
  /\ Len(store) > 0

\* C5: a delete by the id of a stored record, answered by the store, removes
\* exactly that record and ends 200; a delete by an identifier the store
\* generated that is no longer stored ends 500 and removes nothing; a read
\* returns stored records only; and an identifier that is gone stays gone
\* unless an update by name writes it from its body.
C5_DeleteTwice ==
  [][ /\ (last'.op = "delete_cube" /\ WellFormed(last'.key)
          /\ IndexById(store, Oid(last'.key)) # 0 /\ last'.res # "error")
         => /\ last'.status = Ok /\ last'.n = 1
            /\ store' = RemoveAt(store, IndexById(store, Oid(last'.key)))
            /\ IndexById(store', Oid(last'.key)) = 0
      /\ (last'.op = "delete_cube" /\ WellFormed(last'.key)
          /\ IndexById(store, Oid(last'.key)) = 0)
         => /\ last'.status = InternalServerError /\ last'.n = 0
            /\ store' = store
      /\ last'.op \in ReadHandlers
         => \A i \in DOMAIN last'.body : last'.body[i] \in Records(store)
      /\ \A o \in 1..(nextOid - 1) :
           (IndexById(store, o) = 0 /\ IndexById(store', o) # 0)
           => (last'.op = "update_cube_by_name" /\ last'.req.id = Some(o)) ]_vars

\* The second delete of the first identifier the store generated: the record
\* was created, was deleted (the collection is empty), and the store answers
\* the delete with a count of 0.
C5_Witness ==
  /\ last.op = "delete_cube" /\ Oid(last.key) < nextOid /\ WellFormed(last.key)
  /\ store = <<>>
  /\ last.res = "ok" /\ last.n = 0
  /\ last.status = InternalServerError

\* C6: a create that succeeds acknowledges the identifier the store generated
\* and stores the payload under it, with that identifier in place of whatever
\* identifier the payload carried; the record under an identifier changes only
\* by an update or a delete; get_cube, answered by the store, returns the
\* record stored under the identifier, which for the latest created record,
\* before any write to it, is the payload with the acknowledged identifier.
C6_InsertThenGet ==
  [][ /\ (last'.op = "insert_cube" /\ last'.status = Ok)
         => /\ last'.ack = Some(nextOid)
            /\ IndexById(store, nextOid) = 0
            /\ store' = Append(store, [last'.req EXCEPT !.id = Some(nextOid)])
      /\ \A o \in 1..(nextOid - 1) :
           Lookup(store', o) # Lookup(store, o)
           => last'.op \in {"update_cube", "update_cube_by_name", "delete_cube"}
      /\ (last'.op = "get_cube" /\ WellFormed(last'.key) /\ last'.res # "error")
         => /\ last'.body = Lookup(store, Oid(last'.key))
            /\ last'.status = IF last'.body = <<>> THEN InternalServerError ELSE Ok
            /\ Oid(last'.key) = created.oid
               => /\ last'.status = Ok
                  /\ last'.body = << [created.cube EXCEPT !.id = Some(created.oid)] >> ]_vars

\* The latest created record, from a payload that carried an identifier, read
\* back while the collection holds an older record with other fields.
C6_Witness ==
  /\ last.op = "get_cube" /\ last.status = Ok
  /\ Oid(last.key) = created.oid
  /\ created.cube.id.some
  /\ Len(store) > 1
  /\ \E i \in DOMAIN store : ~SameFields(store[i], created.cube) /\ store[i].id.v < created.oid

\* C7: every stored record has an identifier; update_cube changes no record's
\* identifier, whatever identifier the body carries; update_cube_by_name
\* changes one only when the body carries an identifier; a create keeps the
\* identifiers there were and a delete adds none.
C7_IdentifierKept ==
  [][ /\ \A i \in DOMAIN store' : store'[i].id.some
      /\ last'.op = "update_cube" => Ids(store') = Ids(store)
      /\ (last'.op = "update_cube_by_name" /\ ~last'.req.id.some)
         => Ids(store') = Ids(store)
      /\ last'.op = "insert_cube"
         => SubSeq(Ids(store'), 1, Len(store)) = Ids(store)
      /\ last'.op = "delete_cube" => IdSet(store') \subseteq IdSet(store)
      /\ last'.op \in ReadHandlers => store' = store ]_vars

\* An update by id whose body carried another identifier: the record returned
\* has the identifier of the query.
C7_Witness ==
  /\ last.op = "update_cube" /\ last.status = Ok
  /\ last.req.id.some /\ last.req.id # Some(Oid(last.key))
  /\ last.body[1].id = Some(Oid(last.key))

\* C8: only the two update handlers answer 404; a read by id or by name that
\* matches nothing and a delete that removes nothing end 500.
C8_NotFoundOnlyForUpdates ==
  /\ last.status = NotFound => last.op \in {"update_cube", "update_cube_by_name"}
  /\ (last.op \in {"get_cube", "get_cube_by_name"} /\ last.res = "notfound")
     => last.status = InternalServerError
  /\ (last.op = "delete_cube" /\ last.res = "ok" /\ last.n = 0)
     => last.status = InternalServerError

\* A read by name that matches no record of a collection that holds one.
C8_Witness ==
  /\ last.op = "get_cube_by_name" /\ last.res = "notfound"
  /\ last.status = InternalServerError
  /\ Len(store) > 0

\* C9: when two update_cube requests with different payloads have both replaced
\* the record under the same identifier, one of the two replaces came last, and
\* unless a third write followed, the stored record is the whole payload of that
\* one, under the identifier of the query.
C9_LastWriteWins ==
  \A t \in Threads, u \in Threads :
    (/\ t # u
     /\ pend[t].op = "update_cube" /\ pend[u].op = "update_cube"
     /\ Oid(pend[t].key) = Oid(pend[u].key)
     /\ ~SameFields(pend[t].req, pend[u].req))
    => /\ pend[t].dirty \/ pend[u].dirty
       /\ ~pend[t].dirty
          => /\ Len(Lookup(store, Oid(pend[t].key))) = 1
             /\ SameFields(Lookup(store, Oid(pend[t].key))[1], pend[t].req)
             /\ ~SameFields(Lookup(store, Oid(pend[t].key))[1], pend[u].req)

\* Two replaces of the same record with different payloads, the second one last.
C9_Witness ==
  /\ pend["t1"].op = "update_cube" /\ pend["t2"].op = "update_cube"
  /\ pend["t1"].key = pend["t2"].key
  /\ ~SameFields(pend["t1"].req, pend["t2"].req)
  /\ pend["t1"].dirty /\ ~pend["t2"].dirty

\* C10: a 200 of update_cube carries the record the store holds under the query
\* id when the re-fetch runs, with that identifier, and the fields of the
\* request's payload unless another write changed the record after the replace.
C10_RefetchedRecord ==
  [][ (last'.op = "update_cube_refetch" /\ last'.status = Ok)
      => /\ last'.body = Lookup(store, Oid(last'.key))
         /\ Len(last'.body) = 1
         /\ last'.body[1].id = Some(Oid(last'.key))
         /\ ~pend[last'.t].dirty => SameFields(last'.body[1], pend[last'.t].req) ]_vars

\* A 200 that carries another request's payload: a write fell between the
\* replace and the re-fetch.
C10_Witness ==
  /\ last.op = "update_cube_refetch" /\ last.status = Ok
  /\ ~SameFields(last.body[1], last.req)

====
